---- MODULE Spec2Model ----
(***************************************************************************)
(* Model of src/src/hooks/useWebWorker.ts: the dispatchers that run a      *)
(* caller-supplied function in a Web Worker, and the example components    *)
(* that call them.                                                         *)
(*                                                                         *)
(*   policy = "factory"   generateWebWorker (lines 121-190): status and    *)
(*                        worker are closure variables, read live.         *)
(*   policy = "hook"      useWebWorker (lines 5-81): status and worker are *)
(*                        React state cells; runWorker and kill read the   *)
(*                        worker their render captured (useCallback).      *)
(*   policy = "creator"   webWorkerFunctionCreator (lines 85-119), called  *)
(*                        the way ExampleWithFunction calls it: one worker *)
(*                        per value of input.                              *)
(*   policy = "gated"     ExampleWithHook and the trigger-driven hook it   *)
(*                        calls; it has a specification of its own,        *)
(*                        GatedSpec.                                       *)
(*                                                                         *)
(* The main thread and each worker are separate event loops.  A message    *)
(* posted to a worker waits in its inbox until the worker-side handler     *)
(* runs; a reply waits in the outbox (the main side's port message queue)  *)
(* until the main-side onmessage handler runs.  Worker.terminate() empties *)
(* both queues.                                                            *)
(***************************************************************************)
EXTENDS Integers, Sequences, FiniteSets, TLC

\* ---------------------------------------------------------------- bounds
MaxCalls == 3   \* runWorker calls in one behaviour
MaxKills == 2   \* kill calls in one behaviour
MaxMade == 2    \* generateWebWorker calls for the callable in one behaviour
MaxRuns == 6    \* runs the gated hook is started for in one behaviour

VARIABLES
    policy,          \* which dispatcher the behaviour is about
    workerFunction,  \* the callable handed to the dispatcher
    status,          \* the dispatcher's status (closure variable / state cell)
    worker,          \* the dispatcher's handle (closure variable / state cell)
    shown,           \* the status in the tuple last returned to the caller
    bound,           \* the handle captured by the hook's current callbacks
    phase,           \* hook lifecycle: "rendered", "attached", "detached"
    workers,         \* every Worker object created so far
    promises,        \* every pending result handed out by runWorker
    kills,           \* number of kill() calls so far
    killed,          \* history: some kill() call has terminated a worker
    ghost,           \* history, one record per promise
    last,            \* history: the operation that produced this state
    made,            \* number of generateWebWorker(workerFunction) calls
    input,           \* ExampleWithFunction: the input state
    result,          \* the result state of the example component
    shouldExecute    \* ExampleWithHook: the trigger state

\* The state of the example components.
exampleVars == <<input, result, shouldExecute>>

vars == <<policy, workerFunction, status, worker, shown, bound, phase,
          workers, promises, kills, killed, ghost, last, made, exampleVars>>

\* ------------------------------------------------------------ JS values
Num(n) == [t |-> "number", v |-> n]
Str(s) == [t |-> "string", v |-> s]
Undefined == [t |-> "undefined"]
NullValue == [t |-> "null"]
Unbound == [t |-> "unbound"]

\* JavaScript truthiness, as `if (error)` tests it.
Truthy(x) ==
    CASE x.t = "number" -> x.v # 0
      [] x.t = "string" -> x.v # ""
      [] OTHER -> FALSE

\* obj.name of a message object: undefined when the property is absent.
Field(obj, name) == IF name \in DOMAIN obj THEN obj[name] ELSE Undefined

Null == 0
NotInitialized == "Worker not initialized"

\* ------------------------------------------------------------ callables
\* A callable is its source text and the scope it closes over.  The worker
\* global scope binds none of the caller's outer variables.
WorkerGlobalScope == [offset |-> Unbound]
CallerScope == [offset |-> Num(3)]

Sources ==
    {"sumRange", "throwBoom", "throwEmpty", "addOffset", "throwIfZero",
     "twice"}
Callables == [source : Sources, scope : {CallerScope}]

\* The outer names a source text reads.
FreeNames(source) == IF source = "addOffset" THEN {"offset"} ELSE {}
IsPure(f) == FreeNames(f.source) = {}

\* Whether "return " + functionString is a function body that parses.  The
\* text of a method, `twice(n) { return 2 * n }`, is not an expression.
Parses(functionString) == functionString # "twice"

\* The numeric arguments tried: a falsy one and the one of the example.
Inputs == {0, 5}

RECURSIVE SumBelow(_)
SumBelow(n) == IF n = 0 THEN 0 ELSE (n - 1) + SumBelow(n - 1)

\* workerFunc of the example: the sum of 0 .. |num|-1, 0 for a falsy num.
sumRange(num) ==
    IF num = 0 THEN 0 ELSE SumBelow(IF num < 0 THEN -num ELSE num)

Returned(v) == [kind |-> "return", value |-> v]
Thrown(m) == [kind |-> "throw", message |-> m]

\* func(...args): what calling f on the argument list args does.
Call(f, args) ==
    CASE f.source = "sumRange" -> Returned(Num(sumRange(args[1].v)))
      [] f.source = "throwBoom" -> Thrown("boom")
      [] f.source = "throwEmpty" -> Thrown("")
      [] f.source = "addOffset" ->
            IF f.scope.offset = Unbound
            THEN Thrown("offset is not defined")
            ELSE Returned(Num(args[1].v + f.scope.offset.v))
      [] f.source = "throwIfZero" ->
            IF args[1].v = 0
            THEN Thrown("zero")
            ELSE Returned(Num(args[1].v))
      [] f.source = "twice" -> Returned(Num(2 * args[1].v))

\* workerFunction.toString(): the source text, without the scope.
toString(f) == f.source

\* new Function("return " + functionString)(): the text, evaluated in the
\* worker's global scope.
Reconstruct(functionString) ==
    [source |-> functionString, scope |-> WorkerGlobalScope]

\* -------------------------------------------------------------- workers
\* new Worker(URL.createObjectURL(blob)): running, URL held, no handlers.
NewWorker ==
    [terminated |-> FALSE, revoked |-> FALSE, onmessage |-> Null,
     onerror |-> Null, inbox |-> <<>>, outbox |-> <<>>]

\* A variant in which the worker is never terminated.
NotTerminated(wk) == wk

\* worker.terminate(): the worker stops and both message queues are emptied.
Terminate(wk) ==
    [wk EXCEPT !.terminated = TRUE, !.inbox = <<>>, !.outbox = <<>>]

\* URL.revokeObjectURL(workerUrl)
Revoke(wk) == [wk EXCEPT !.revoked = TRUE]

\* worker.postMessage(msg): dropped when the worker is terminated.
PostMessage(wk, msg) ==
    IF wk.terminated THEN wk ELSE [wk EXCEPT !.inbox = Append(@, msg)]

\* The Invocation runWorker posts.  `id` is history: the promise it is for.
Invocation(a, id) ==
    [input |-> <<Num(a)>>, functionString |-> toString(workerFunction),
     id |-> id]

\* The worker-side handler: one Reply per Invocation.
Reply(msg) ==
    LET func == Reconstruct(msg.functionString)
        out == Call(func, msg.input)
    IN  IF out.kind = "return"
        THEN [result |-> out.value, id |-> msg.id]
        ELSE [error |-> Str(out.message), id |-> msg.id]

\* The error event the runtime fires at the Worker object for an error
\* nothing in the worker caught.  `id` is history.
ErrorEvent(id) == [fault |-> TRUE, id |-> id]
IsErrorEvent(ev) == "fault" \in DOMAIN ev

\* What the worker-side handler of useWebWorker and generateWebWorker sends
\* for msg.  new Function(...) stands outside the try block: for a text
\* that does not parse the async handler rejects without a Reply, and
\* whether that unhandled rejection reaches the Worker object as an error
\* event is the runtime's choice (surfaces).
Posts(msg, surfaces) ==
    IF Parses(msg.functionString)
    THEN <<Reply(msg)>>
    ELSE IF surfaces THEN <<ErrorEvent(msg.id)>> ELSE <<>>

\* The worker-side handler of webWorkerFunctionCreator: it posts the bare
\* result, with no try block and no await.  A text that does not parse or a
\* callable that throws ends the handler with an uncaught exception, which
\* the runtime reports as an error event at the Worker object.
Result(msg) ==
    LET out == IF Parses(msg.funcString)
               THEN Call(Reconstruct(msg.funcString), msg.args)
               ELSE Thrown("SyntaxError")
    IN  IF out.kind = "return"
        THEN [data |-> out.value, id |-> msg.id]
        ELSE ErrorEvent(msg.id)

\* A variant of terminate() that revokes the URL and leaves the worker
\* running.
CreatorRevokeOnly(wk) == Revoke(wk)

\* The object webWorkerFunctionCreator returns: terminate() revokes the
\* script URL and terminates the worker.
CreatorTerminate(wk) == Terminate(Revoke(wk))

\* onMessage(callback): worker.onmessage = (e) => callback(e.data).
\* `callback` is history: the effect run that registered it.
CreatorOnMessage(wk, callback) == [wk EXCEPT !.onmessage = callback]

\* postMessage(args) of that object.
CreatorPostMessage(wk, args, id) ==
    PostMessage(wk, [funcString |-> toString(workerFunction),
                     args |-> args, id |-> id])

\* ------------------------------------------------------------- promises
Pending == [state |-> "pending", value |-> Undefined]

\* resolve(v) / reject(new Error(m)): no effect on a settled promise.
Resolve(ps, p, v) ==
    IF ps[p].state = "pending"
    THEN [ps EXCEPT ![p] = [state |-> "resolved", value |-> v]]
    ELSE ps

Reject(ps, p, m) ==
    IF ps[p].state = "pending"
    THEN [ps EXCEPT ![p] = [state |-> "rejected", value |-> m]]
    ELSE ps

\* The handle a runWorker or kill call reads: the live closure variable in
\* generateWebWorker, the value captured at the last render in the hook.
HandleSeen == IF policy = "factory" THEN worker ELSE bound

\* The owner of the hook makes no calls once it is unmounted.
OwnerPresent == phase # "detached"

Event(op, w, p, data) ==
    [op |-> op, w |-> w, p |-> p, data |-> data, from |-> status]

\* ----------------------------------------------------------------- Init
Init ==
    /\ policy \in {"factory", "hook", "creator"}
    /\ workerFunction \in Callables
    /\ status = "idle"
    /\ shown = "idle"
    /\ bound = Null
    /\ promises = <<>>
    /\ ghost = <<>>
    /\ kills = 0
    /\ killed = FALSE
    /\ last = Event("init", Null, Null, Undefined)
    /\ made = (IF policy = "factory" THEN 1 ELSE 0)
    /\ input = 0
    /\ result = NullValue
    /\ shouldExecute = 0
    /\ IF policy = "factory"
       THEN /\ workers = <<NewWorker>>
            /\ worker = 1
            /\ phase = "attached"
       ELSE /\ workers = <<>>
            /\ worker = Null
            /\ phase = "rendered"

\* The queues of worker w are empty: every Invocation sent to it has been
\* answered and every Reply handled.
Drained(w) == workers[w].inbox = <<>> /\ workers[w].outbox = <<>>

\* -------------------------------------------------------------- history
\* One record per promise: the argument it was dispatched with, the worker
\* it was dispatched to (Null when the call was refused), whether that
\* worker was running, whether the dispatch is still the only one
\* outstanding on its worker (quiet), whether a later dispatch replaced its
\* handlers while it was pending (superseded), whether a kill terminated
\* its worker while it was pending (abandoned), and whether it was issued
\* after a kill had terminated a worker (afterKill).
Refused(a) ==
    [input |-> a, ctx |-> Null, live |-> FALSE, quiet |-> FALSE,
     superseded |-> FALSE, abandoned |-> FALSE, afterKill |-> killed]

Accepted(a, h) ==
    [input |-> a, ctx |-> h, live |-> ~workers[h].terminated,
     quiet |-> /\ ~workers[h].terminated
               /\ workers[h].inbox = <<>>
               /\ workers[h].outbox = <<>>,
     superseded |-> FALSE, abandoned |-> FALSE, afterKill |-> killed]

Outstanding(i, h) == ghost[i].ctx = h /\ promises[i].state = "pending"

Supersede(h) ==
    [i \in DOMAIN ghost |->
        IF Outstanding(i, h)
        THEN [ghost[i] EXCEPT !.superseded = TRUE, !.quiet = FALSE]
        ELSE ghost[i]]

Abandon(h) ==
    [i \in DOMAIN ghost |->
        IF Outstanding(i, h)
        THEN [ghost[i] EXCEPT !.abandoned = TRUE, !.quiet = FALSE]
        ELSE ghost[i]]

\* -------------------------------------------------------------- actions
\* useEffect(..., []) of the hook, run once after the first render: creates
\* the worker and stores it in the state cell (setWorker).
useEffect ==
    /\ policy = "hook"
    /\ phase = "rendered"
    /\ workers' = Append(workers, NewWorker)
    /\ worker' = Len(workers) + 1
    /\ phase' = "attached"
    /\ last' = Event("useEffect", Len(workers) + 1, Null, Undefined)
    /\ UNCHANGED <<made, exampleVars>>
    /\ UNCHANGED <<policy, workerFunction, status, shown, bound, promises,
                   kills, killed, ghost>>

\* A re-render of the hook's owner after a state update: the returned tuple
\* carries the current status, and runWorker and kill are re-created around
\* the current worker (useCallback deps [worker]).
render ==
    /\ policy = "hook"
    /\ OwnerPresent
    /\ <<shown, bound>> # <<status, worker>>
    /\ shown' = status
    /\ bound' = worker
    /\ last' = Event("render", Null, Null, Undefined)
    /\ UNCHANGED <<made, exampleVars>>
    /\ UNCHANGED <<policy, workerFunction, status, worker, phase, workers,
                   promises, kills, killed, ghost>>

\* A variant that keeps one worker per callable and hands it out again.
generateWebWorkerCached ==
    /\ policy = "factory"
    /\ made < MaxMade
    /\ made' = made + 1
    /\ last' = Event("generateWebWorker", 1, Null, Undefined)
    /\ UNCHANGED <<workers, exampleVars>>
    /\ UNCHANGED <<policy, workerFunction, status, worker, shown, bound,
                   phase, promises, kills, killed, ghost>>

\* A further generateWebWorker(workerFunction) call for the same callable,
\* after the one Init stands for: it creates a worker of its own, held by
\* the status and worker variables of its own closure.  The tuple it
\* returns is not called in the model, so those stay "idle" and the new
\* worker; the variables status and worker are those of the first call.
generateWebWorker ==
    /\ policy = "factory"
    /\ made < MaxMade
    /\ made' = made + 1
    /\ workers' = Append(workers, NewWorker)
    /\ last' = Event("generateWebWorker", Len(workers) + 1, Null, Undefined)
    /\ UNCHANGED exampleVars
    /\ UNCHANGED <<policy, workerFunction, status, worker, shown, bound,
                   phase, promises, kills, killed, ghost>>

\* `if (!worker)` of runWorker.
NoWorker(h) == h = Null

\* A variant that keeps handlers already installed (onmessage ??= ...).
SetHandlersOnce(wk, p) ==
    IF wk.onmessage = Null
    THEN [wk EXCEPT !.onmessage = p, !.onerror = p]
    ELSE wk

\* A variant that posts the Invocation and installs no handlers.
SetHandlersOmitted(wk, p) == wk

\* worker.onmessage = ...; worker.onerror = ...: the handlers of promise p
\* replace whatever handlers were installed.
SetHandlers(wk, p) == [wk EXCEPT !.onmessage = p, !.onerror = p]

\* A variant that sets status before testing the handle.
RefuseAfterRunning(a, p) ==
    /\ status' = "running"
    /\ promises' = Append(promises,
            [state |-> "rejected", value |-> Str(NotInitialized)])
    /\ ghost' = Append(ghost, Refused(a))
    /\ last' = Event("runWorker", Null, p, Num(a))
    /\ UNCHANGED workers

\* return Promise.reject(new Error("Worker not initialized")): the call
\* does nothing else.
Refuse(a, p) ==
    /\ promises' = Append(promises,
            [state |-> "rejected", value |-> Str(NotInitialized)])
    /\ ghost' = Append(ghost, Refused(a))
    /\ last' = Event("runWorker", Null, p, Num(a))
    /\ UNCHANGED <<status, workers>>

\* The accepted call: status is set, then inside the promise executor the
\* handlers are installed on the worker and the Invocation is posted.
Accept(a, h, p) ==
    /\ status' = "running"
    /\ promises' = Append(promises, Pending)
    /\ workers' = [workers EXCEPT ![h] =
            PostMessage(SetHandlers(@, p), Invocation(a, p))]
    /\ ghost' = Append(Supersede(h), Accepted(a, h))
    /\ last' = Event("runWorker", h, p, Num(a))

\* runWorker(a)
runWorker(a) ==
    /\ policy \in {"factory", "hook"}
    /\ OwnerPresent
    /\ Len(promises) < MaxCalls
    /\ LET h == HandleSeen
           p == Len(promises) + 1
       IN  IF NoWorker(h) THEN Refuse(a, p) ELSE Accept(a, h, p)
    /\ UNCHANGED <<made, exampleVars>>
    /\ UNCHANGED <<policy, workerFunction, worker, shown, bound, phase,
                   kills, killed>>

\* A variant that refuses to kill a running worker.
HasWorkerNotRunning(h) == h # Null /\ status # "running"

\* `if (worker)` of kill.
HasWorker(h) == h # Null

\* The body of kill: worker.terminate(), the handle is cleared, status is
\* reset.
Discard(h) ==
    /\ workers' = [workers EXCEPT ![h] = Terminate(@)]
    /\ worker' = Null
    /\ status' = "idle"
    /\ killed' = TRUE
    /\ ghost' = Abandon(h)
    /\ last' = Event("kill", h, Null,
                     [inflight |-> \E i \in DOMAIN ghost : Outstanding(i, h)])

\* kill()
kill ==
    /\ policy \in {"factory", "hook"}
    /\ OwnerPresent
    /\ kills < MaxKills
    /\ kills' = kills + 1
    /\ LET h == HandleSeen
       IN  IF HasWorker(h)
           THEN Discard(h)
           ELSE /\ last' = Event("kill", Null, Null, Undefined)
                /\ UNCHANGED <<workers, worker, status, killed, ghost>>
    /\ UNCHANGED <<made, exampleVars>>
    /\ UNCHANGED <<policy, workerFunction, shown, bound, phase, promises>>

\* The worker-side self.onmessage: takes the next Invocation and posts its
\* Reply.
workerFunc(w) ==
    /\ policy \in {"factory", "hook"}
    /\ ~workers[w].terminated
    /\ workers[w].inbox # <<>>
    /\ \E surfaces \in BOOLEAN :
           LET msg == Head(workers[w].inbox)
               posted == Posts(msg, surfaces)
           IN  /\ workers' = [workers EXCEPT
                       ![w].inbox = Tail(@),
                       ![w].outbox = @ \o posted]
               /\ last' = Event("workerFunc", w, msg.id,
                                [input |-> msg.input[1].v,
                                 posted |-> posted])
    /\ UNCHANGED <<made, exampleVars>>
    /\ UNCHANGED <<policy, workerFunction, status, worker, shown, bound,
                   phase, promises, kills, killed, ghost>>

\* The status the reply handler sets: `if (error)`.
ReplyStatus(data) ==
    IF Truthy(Field(data, "error")) THEN "error" ELSE "idle"

\* A variant that resolves with the whole message, resolve(event.data).
ReplySettleData(ps, p, data) ==
    IF Truthy(Field(data, "error"))
    THEN Reject(ps, p, Field(data, "error"))
    ELSE Resolve(ps, p, data)

\* What the reply handler does to its promise.
ReplySettle(ps, p, data) ==
    IF Truthy(Field(data, "error"))
    THEN Reject(ps, p, Field(data, "error"))
    ELSE Resolve(ps, p, Field(data, "result"))

\* The main-side worker.onmessage: the next Reply of worker w goes to the
\* handler installed on w.
onmessage(w) ==
    /\ policy \in {"factory", "hook"}
    /\ workers[w].outbox # <<>>
    /\ ~IsErrorEvent(Head(workers[w].outbox))
    /\ LET data == Head(workers[w].outbox)
           p == workers[w].onmessage
       IN  /\ workers' = [workers EXCEPT ![w].outbox = Tail(@)]
           /\ IF p = Null
              THEN UNCHANGED <<status, promises>>
              ELSE /\ status' = ReplyStatus(data)
                   /\ promises' = ReplySettle(promises, p, data)
           /\ last' = Event("onmessage", w, p, data)
    /\ UNCHANGED <<made, exampleVars>>
    /\ UNCHANGED <<policy, workerFunction, worker, shown, bound, phase,
                   kills, killed, ghost>>

\* The main-side worker.onerror: the next error event of worker w goes to
\* the handler installed on w, which sets status and rejects with the
\* event.
onerror(w) ==
    /\ workers[w].outbox # <<>>
    /\ IsErrorEvent(Head(workers[w].outbox))
    /\ LET p == workers[w].onerror
       IN  /\ workers' = [workers EXCEPT ![w].outbox = Tail(@)]
           /\ IF p = Null
              THEN UNCHANGED <<status, promises>>
              ELSE /\ status' = "error"
                   /\ promises' = Reject(promises, p, [t |-> "ErrorEvent"])
           /\ last' = Event("onerror", w, p, Head(workers[w].outbox))
    /\ UNCHANGED <<made, exampleVars>>
    /\ UNCHANGED <<policy, workerFunction, worker, shown, bound, phase,
                   kills, killed, ghost>>

\* A variant of the cleanup that goes through the state cell, which kill
\* has set to null.
cleanupViaState ==
    /\ policy = "hook"
    /\ phase = "attached"
    /\ workers' = IF worker = Null THEN workers
                  ELSE [workers EXCEPT ![worker] = Revoke(Terminate(@))]
    /\ phase' = "detached"
    /\ last' = Event("cleanup", 1, Null, Undefined)
    /\ UNCHANGED <<made, exampleVars>>
    /\ UNCHANGED <<policy, workerFunction, status, worker, shown, bound,
                   promises, kills, killed, ghost>>

\* The cleanup of the hook's effect, run when the owner unmounts:
\* newWorker.terminate() and URL.revokeObjectURL(workerUrl).
cleanup ==
    /\ policy = "hook"
    /\ phase = "attached"
    /\ workers' = [workers EXCEPT ![1] = Revoke(Terminate(@))]
    /\ phase' = "detached"
    /\ last' = Event("cleanup", 1, Null, Undefined)
    /\ UNCHANGED <<made, exampleVars>>
    /\ UNCHANGED <<policy, workerFunction, status, worker, shown, bound,
                   promises, kills, killed, ghost>>

\* ExampleWithFunction, a caller of webWorkerFunctionCreator.  Its effect
\* runs after the first render and after every change of input: the cleanup
\* of the previous run terminates that run's worker, then a worker is
\* created, the callback registered and [input] posted.
effect ==
    /\ policy = "creator"
    /\ phase \in {"rendered", "stale"}
    /\ LET w == Len(workers) + 1
           cleaned == IF phase = "stale"
                      THEN [workers EXCEPT ![worker] = CreatorTerminate(@)]
                      ELSE workers
       IN  /\ workers' = Append(cleaned,
                   CreatorPostMessage(CreatorOnMessage(NewWorker, w),
                                      <<Num(input)>>, w))
           /\ worker' = w
           /\ last' = Event("effect", w, Null,
                  [input |-> input,
                   superseded |-> phase = "stale" /\ ~Drained(worker)])
    /\ phase' = "attached"
    /\ UNCHANGED <<made, exampleVars>>
    /\ UNCHANGED <<policy, workerFunction, status, shown, bound, promises,
                   kills, killed, ghost>>

\* setInput(v) with a value other than the current one: the owner
\* re-renders, and the effect is due to run again.
setInput(v) ==
    /\ policy = "creator"
    /\ phase = "attached"
    /\ v # input
    /\ Len(workers) < MaxCalls
    /\ input' = v
    /\ phase' = "stale"
    /\ last' = Event("setInput", worker, Null, Num(v))
    /\ UNCHANGED <<made, result, shouldExecute>>
    /\ UNCHANGED <<policy, workerFunction, status, worker, shown, bound,
                   workers, promises, kills, killed, ghost>>

\* The worker-side onmessage of webWorkerFunctionCreator.
workerOnmessage(w) ==
    /\ policy = "creator"
    /\ ~workers[w].terminated
    /\ workers[w].inbox # <<>>
    /\ LET msg == Head(workers[w].inbox)
           posted == IF IsErrorEvent(Result(msg)) THEN <<>>
                     ELSE <<Result(msg)>>
       IN  /\ workers' = [workers EXCEPT
                   ![w].inbox = Tail(@),
                   ![w].outbox = Append(@, Result(msg))]
           /\ last' = Event("workerOnmessage", w, msg.id,
                            [input |-> msg.args[1].v, posted |-> posted])
    /\ UNCHANGED <<made, exampleVars>>
    /\ UNCHANGED <<policy, workerFunction, status, worker, shown, bound,
                   phase, promises, kills, killed, ghost>>

\* The main-side worker.onmessage the creator installed: callback(e.data),
\* which in ExampleWithFunction is setResult(res).
callback(w) ==
    /\ policy = "creator"
    /\ workers[w].outbox # <<>>
    /\ ~IsErrorEvent(Head(workers[w].outbox))
    /\ workers' = [workers EXCEPT ![w].outbox = Tail(@)]
    /\ result' = IF workers[w].onmessage = Null
                 THEN result
                 ELSE Head(workers[w].outbox).data
    /\ last' = Event("callback", w, Null, Head(workers[w].outbox))
    /\ UNCHANGED <<made, input, shouldExecute>>
    /\ UNCHANGED <<policy, workerFunction, status, worker, shown, bound,
                   phase, promises, kills, killed, ghost>>

Next ==
    \/ useEffect
    \/ render
    \/ \E a \in Inputs : runWorker(a)
    \/ kill
    \/ \E w \in DOMAIN workers : workerFunc(w)
    \/ \E w \in DOMAIN workers : onmessage(w)
    \/ \E w \in DOMAIN workers : onerror(w)
    \/ cleanup
    \/ generateWebWorker
    \/ effect
    \/ \E v \in Inputs : setInput(v)
    \/ \E w \in DOMAIN workers : workerOnmessage(w)
    \/ \E w \in DOMAIN workers : callback(w)

Spec == Init /\ [][Next]_vars

\* Each event loop takes a message that is waiting for it: the worker its
\* next Invocation, the main thread the next message or error event of a
\* worker.
FairSpec ==
    /\ Spec
    /\ WF_vars(\E w \in DOMAIN workers : workerFunc(w))
    /\ WF_vars(\E w \in DOMAIN workers : onmessage(w))
    /\ WF_vars(\E w \in DOMAIN workers : onerror(w))

\* ------------------------------------------------------ the gated hook
\* ExampleWithHook calls useWebWorker("null", workerFunction, shouldExecute)
\* and reads { result, isLoading, error }.  That three-argument hook is not
\* among the source files; Gate and gatedReply follow section 4.4 (3) of
\* the specification.  The worker script and the two buttons are the
\* component's own code.

\* The worker script of ExampleWithHook and the fixed input it is sent.
LoopSum == [source |-> "loopSum", scope |-> CallerScope]
FixedInput == Str("null")

\* The sum of 0 .. 9999999999 the script posts; it is beyond the integers
\* of the model and kept as a symbol.
HugeSum == [t |-> "number", v |-> "sum of 0 .. 9999999999"]

GatedInit ==
    /\ policy = "gated"
    /\ workerFunction = LoopSum
    /\ status = "idle"
    /\ shown = "idle"
    /\ worker = Null
    /\ bound = Null
    /\ phase = "attached"
    /\ workers = <<>>
    /\ promises = <<>>
    /\ ghost = <<>>
    /\ kills = 0
    /\ killed = FALSE
    /\ made = 0
    /\ input = 0
    /\ result = NullValue
    /\ shouldExecute = 0
    /\ last = Event("init", Null, Null, Undefined)

\* The hook's workers with the context it has, if any, torn down.
TornDown ==
    IF worker = Null THEN workers
    ELSE [workers EXCEPT ![worker] = Terminate(@)]

\* Status rests at "idle" and nothing is created; ws are the workers left.
Rest(ws) ==
    /\ workers' = ws
    /\ worker' = Null
    /\ status' = "idle"
    /\ promises' = promises

\* A new context is created next to ws and sent the fixed input; status is
\* "running" at once.  promises holds one pending result per run.
StartRun(ws) ==
    LET w == Len(ws) + 1
    IN  /\ workers' = Append(ws,
                PostMessage([NewWorker EXCEPT !.onmessage = w],
                            [data |-> FixedInput, id |-> w]))
        /\ worker' = w
        /\ status' = "running"
        /\ promises' = Append(promises, Pending)

\* A variant that leaves a running context alone when the trigger turns
\* falsy.
GateIdleOnly(v) == IF v = 0 THEN Rest(workers) ELSE StartRun(TornDown)

\* A variant that keeps the context it has and only invokes it again.
GateKeepsContext(v) ==
    IF v = 0 THEN Rest(TornDown)
    ELSE IF worker = Null THEN StartRun(workers)
    ELSE /\ workers' = [workers EXCEPT ![worker] =
                 PostMessage(@, [data |-> FixedInput, id |-> worker])]
         /\ status' = "running"
         /\ UNCHANGED <<worker, promises>>

\* What the hook does when the trigger changes to v: the context it has is
\* torn down; for a truthy v a new one is created and invoked, for a falsy
\* v none is.
Gate(v) == IF v = 0 THEN Rest(TornDown) ELSE StartRun(TornDown)

\* The "Start execution" / "Restart execution" button, rendered when there
\* is no error and nothing is loading: setShouldExecute(prev => prev + 1).
startExecution ==
    /\ policy = "gated"
    /\ status = "idle"
    /\ Len(workers) < MaxRuns
    /\ shouldExecute' = shouldExecute + 1
    /\ Gate(shouldExecute + 1)
    /\ last' = Event("startExecution", worker, Null, Num(shouldExecute))
    /\ UNCHANGED <<made, input, result>>
    /\ UNCHANGED <<policy, workerFunction, shown, bound, phase, kills,
                   killed, ghost>>

\* The "Stop execution" button, rendered while loading:
\* setShouldExecute(0).
stopExecution ==
    /\ policy = "gated"
    /\ status = "running"
    /\ shouldExecute' = 0
    /\ Gate(0)
    /\ last' = Event("stopExecution", worker, Null, Num(shouldExecute))
    /\ UNCHANGED <<made, input, result>>
    /\ UNCHANGED <<policy, workerFunction, shown, bound, phase, kills,
                   killed, ghost>>

\* The worker script of ExampleWithHook: on any message it runs the loop
\* and posts the sum.
gatedWorker(w) ==
    /\ policy = "gated"
    /\ ~workers[w].terminated
    /\ workers[w].inbox # <<>>
    /\ workers' = [workers EXCEPT
            ![w].inbox = Tail(@),
            ![w].outbox = Append(@, [data |-> HugeSum,
                                     id |-> Head(workers[w].inbox).id])]
    /\ last' = Event("gatedWorker", w, Null, Undefined)
    /\ UNCHANGED <<made, exampleVars>>
    /\ UNCHANGED <<policy, workerFunction, status, worker, shown, bound,
                   phase, promises, kills, killed, ghost>>

\* The hook's handling of the Reply of the current context: the result is
\* set and loading ends.
gatedReply(w) ==
    /\ policy = "gated"
    /\ workers[w].outbox # <<>>
    /\ workers' = [workers EXCEPT ![w].outbox = Tail(@)]
    /\ result' = Head(workers[w].outbox).data
    /\ status' = "idle"
    /\ promises' = Resolve(promises, workers[w].onmessage,
                           Head(workers[w].outbox).data)
    /\ last' = Event("gatedReply", w, workers[w].onmessage,
                     Head(workers[w].outbox))
    /\ UNCHANGED <<made, input, shouldExecute>>
    /\ UNCHANGED <<policy, workerFunction, worker, shown, bound, phase,
                   kills, killed, ghost>>

GatedNext ==
    \/ startExecution
    \/ stopExecution
    \/ \E w \in DOMAIN workers : gatedWorker(w)
    \/ \E w \in DOMAIN workers : gatedReply(w)

\* The worker's event loop and the main thread's each take a message that
\* is waiting for them.
GatedSpec ==
    /\ GatedInit
    /\ [][GatedNext]_vars
    /\ WF_vars(\E w \in DOMAIN workers : gatedWorker(w))
    /\ WF_vars(\E w \in DOMAIN workers : gatedReply(w))

\* =============================================================== claims
\* What calling workerFunction directly, in the caller's scope, does.
Direct(a) == Call(workerFunction, <<Num(a)>>)

\* What calling it inside the worker does.
InWorker(a) == Call(Reconstruct(toString(workerFunction)), <<Num(a)>>)

Settled(p) == promises[p].state # "pending"

C2_ThrownMessageRejects ==
    \A p \in DOMAIN promises :
        (/\ ghost[p].quiet
         /\ last.op = "onmessage"
         /\ last.p = p
         /\ InWorker(ghost[p].input).kind = "throw")
        => /\ promises[p] = [state |-> "rejected",
                             value |-> Str(InWorker(ghost[p].input).message)]
           /\ status = "error"

\* C3: a dispatch whose handlers a later dispatch replaced while it was
\* pending is never settled, and once every Reply of a running worker has
\* been handled the promise of the last dispatch is settled: of two
\* back-to-back dispatches exactly the second settles.
C3_OverwriteRace ==
    /\ \A p \in DOMAIN promises :
           ghost[p].superseded => ~Settled(p)
    /\ \A w \in DOMAIN workers :
           (/\ policy \in {"factory", "hook"}
            /\ ~workers[w].terminated
            /\ Parses(toString(workerFunction))
            /\ Drained(w)
            /\ workers[w].onmessage # Null)
           => Settled(workers[w].onmessage)

\* C3 witness: two dispatches with different arguments on one worker, the
\* second issued before any Reply; all Replies handled; the first is still
\* pending and the second settled.
C3_Witness ==
    \E p1, p2 \in DOMAIN promises :
        /\ p1 < p2
        /\ Len(promises) = 2
        /\ ghost[p1].ctx = ghost[p2].ctx
        /\ ghost[p1].live
        /\ ghost[p1].input # ghost[p2].input
        /\ ghost[p1].superseded
        /\ Drained(ghost[p1].ctx)
        /\ ~killed
        /\ ~Settled(p1)
        /\ Settled(p2)

\* C4: status starts at "idle"; for a single dispatch on a running worker
\* it goes idle -> running at the dispatch, stays "running" until the Reply
\* is handled, and then goes running -> idle on a success Reply and
\* running -> error on a failure Reply.
C4_StatusRoundTrip ==
    /\ last.op = "init" => status = "idle"
    /\ (Len(promises) = 1 /\ ghost[1].quiet) =>
          /\ last.op = "runWorker" =>
                last.from = "idle" /\ status = "running"
          /\ ~Settled(1) => status = "running"
          /\ last.op = "onmessage" =>
                /\ last.from = "running"
                /\ status = IF "error" \in DOMAIN last.data
                            THEN "error" ELSE "idle"

\* C5: once a kill has terminated the worker, status is "idle" and every
\* dispatch issued afterwards has failed with "Worker not initialized".
C5_AfterKillNotInitialized ==
    killed =>
        /\ status = "idle"
        /\ \A p \in DOMAIN promises :
               ghost[p].afterKill =>
                   promises[p] = [state |-> "rejected",
                                  value |-> Str(NotInitialized)]

C7_KillFromAnyStatus ==
    [][(last'.op = "kill" /\ HandleSeen # Null) =>
          /\ workers'[HandleSeen].terminated
          /\ worker' = Null
          /\ status' = "idle"]_vars

\* C7 witness: kill has just acted while status was "running" and an
\* Invocation was in flight.
C7_Witness ==
    /\ last.op = "kill"
    /\ last.w # Null
    /\ last.from = "running"
    /\ last.data.inflight
    /\ workers[last.w].terminated
    /\ worker = Null
    /\ status = "idle"

\* C8: a promise whose Invocation was in flight when kill terminated its
\* worker is never settled, and no Reply of a terminated worker is handled.
C8_KilledInFlightNeverSettles ==
    /\ \A p \in DOMAIN promises : ghost[p].abandoned => ~Settled(p)
    /\ last.op = "onmessage" => ~workers[last.w].terminated

\* C8 witness: a promise abandoned by a kill is still pending after a later
\* operation, with status "idle".
C8_Witness ==
    \E p \in DOMAIN promises :
        /\ ghost[p].abandoned
        /\ ~Settled(p)
        /\ last.op = "runWorker"
        /\ status = "idle"

\* C9: a kill call made after a kill has already terminated the worker is
\* a no-op: it leaves the handle cleared and status "idle", as the first
\* kill left them, and every promise and worker as they were.
C9_KillIdempotent ==
    [][(last'.op = "kill" /\ killed) =>
          /\ worker' = Null
          /\ worker' = worker
          /\ status' = "idle"
          /\ promises' = promises
          /\ workers' = workers]_vars

\* C10: in every state after kill has terminated a worker, that worker's
\* script URL has been revoked.
C10_KillReleasesUrl ==
    killed =>
        \A w \in DOMAIN workers :
            workers[w].terminated => workers[w].revoked

\* C11: every Invocation a worker-side handler takes, with a source text
\* that parses, is answered in that step by exactly one message: the Reply
\* to that Invocation, carrying the value the callable returns in the worker
\* or the message of the error it throws.
C11_ExactlyOneReply ==
    (/\ last.op \in {"workerFunc", "workerOnmessage"}
     /\ Parses(toString(workerFunction)))
    => LET posted == last.data.posted
           out == InWorker(last.data.input)
       IN  /\ Len(posted) = 1
           /\ posted[1].id = last.p
           /\ out.kind = "return" =>
                  \/ Field(posted[1], "result") = out.value
                  \/ Field(posted[1], "data") = out.value
           /\ out.kind = "throw" =>
                  Field(posted[1], "error") = Str(out.message)

\* C12: when the worker fails on an Invocation instead of replying (the
\* source text does not parse), then once the worker has taken the
\* Invocation and everything it sent has been handled, the dispatch is
\* rejected, and status is "error" as long as no later call has been made.
C12_ContextFaultRejects ==
    \A p \in DOMAIN promises :
        (/\ ghost[p].quiet
         /\ ~Parses(toString(workerFunction))
         /\ ~workers[ghost[p].ctx].terminated
         /\ Drained(ghost[p].ctx))
        => /\ promises[p].state = "rejected"
           /\ (p = Len(promises) /\ kills = 0) => status = "error"

\* C13: the status in the object generateWebWorker returned equals the
\* dispatcher's status in every state.
C13_ReturnedStatusIsCurrent ==
    policy = "factory" => shown = status

\* C14: a step that takes status out of "error" is an accepted runWorker
\* call (the next dispatch) or a kill call; no other step does.
C14_ErrorPersists ==
    [][(status = "error" /\ status' # "error") =>
          last'.op \in {"runWorker", "kill"}]_vars

\* C15, as claimed: however often generateWebWorker is called for the
\* callable, exactly one worker has been created.
C15_OneContextPerCallable ==
    policy = "factory" => Len(workers) = 1

\* C15, amended: every generateWebWorker call creates exactly one worker
\* and nothing else does; every dispatch accepted through the first tuple
\* went to the worker of that call; and only a kill through that tuple has
\* terminated a worker, its own.
C15_OneContextPerInvocation ==
    policy = "factory" =>
        /\ Len(workers) = made
        /\ \A p \in DOMAIN promises : ghost[p].ctx \in {Null, 1}
        /\ \A w \in DOMAIN workers :
               workers[w].terminated => (killed /\ w = 1)

\* C15 witness: generateWebWorker was called twice for the callable, two
\* workers exist, and a dispatch through the first tuple was answered by
\* the first worker.
C15_Witness ==
    /\ policy = "factory"
    /\ made = 2
    /\ Len(workers) = 2
    /\ ~killed
    /\ \E p \in DOMAIN promises :
           ghost[p].ctx = 1 /\ promises[p].state = "resolved"

\* C16: in the hook the one worker created at attach takes every accepted
\* dispatch, and a dispatch that is the only one outstanding on the running
\* worker until its Reply is handled, whatever status was when it was
\* issued, is settled once the worker's queues are empty, with the outcome
\* of its own Invocation: resolved with the value the callable returned in
\* the worker, or rejected with the message of the error it threw.
C16_SequentialDispatches ==
    (policy = "hook" /\ Parses(toString(workerFunction))) =>
        /\ Len(workers) <= 1
        /\ \A p \in DOMAIN promises :
               /\ ghost[p].ctx \in {Null, 1}
               /\ (/\ ghost[p].quiet
                   /\ ~workers[ghost[p].ctx].terminated
                   /\ Drained(ghost[p].ctx))
                  => Settled(p)
               /\ (ghost[p].quiet /\ Settled(p))
                  => LET out == InWorker(ghost[p].input)
                     IN  promises[p] =
                            IF out.kind = "return"
                            THEN [state |-> "resolved", value |-> out.value]
                            ELSE [state |-> "rejected",
                                  value |-> Str(out.message)]

\* C17: in every state of the gated hook in which the trigger is falsy,
\* status is "idle", no worker is running or has a message queued, and the
\* step that led there was not a worker producing a Reply nor the handling
\* of one.
C17_FalsyTriggerRests ==
    (policy = "gated" /\ shouldExecute = 0) =>
        /\ status = "idle"
        /\ worker = Null
        /\ \A w \in DOMAIN workers :
               workers[w].terminated /\ Drained(w)
        /\ last.op \notin {"gatedWorker", "gatedReply"}

\* C17 witness: the trigger was set to 0 while it was truthy and a context
\* was running with its Invocation in flight.
C17_Witness ==
    /\ policy = "gated"
    /\ shouldExecute = 0
    /\ last.op = "stopExecution"
    /\ last.from = "running"
    /\ last.w # Null
    /\ workers[last.w].terminated
    /\ promises[last.w].state = "pending"

\* C18: an increment of the trigger after a run that succeeded terminates
\* the context of that run and creates a new one holding one Invocation
\* with the fixed input; and a run that is started is answered, its Reply
\* handled as the result of that run, unless the trigger is set to 0
\* first.
C18_RestartRunsAfresh ==
    /\ [][(/\ last'.op = "startExecution"
           /\ worker # Null
           /\ promises[worker].state = "resolved")
          => /\ workers'[worker].terminated
             /\ Len(workers') = Len(workers) + 1
             /\ worker' = Len(workers')
             /\ ~workers'[worker'].terminated
             /\ workers'[worker'].inbox =
                    <<[data |-> FixedInput, id |-> worker']>>
             /\ promises' = Append(promises, Pending)]_vars
    /\ \A w \in 1 .. MaxRuns :
           (worker = w /\ status = "running")
               ~> (\/ worker = w /\ promises[w].state = "resolved"
                   \/ shouldExecute = 0)

\* C18 witness: the second run, started by an increment after the first
\* run succeeded, has had its own Reply handled; the first context is
\* terminated.
C18_Witness ==
    /\ policy = "gated"
    /\ shouldExecute = 2
    /\ worker = 2
    /\ workers[1].terminated
    /\ promises[1].state = "resolved"
    /\ last.op = "gatedReply"
    /\ last.data.id = 2
    /\ promises[2] = [state |-> "resolved", value |-> HugeSum]

\* C19: a worker on which the object of webWorkerFunctionCreator was told
\* to terminate is terminated with its URL revoked and nothing queued, and
\* the registered callback only ever runs for the worker of the latest
\* effect run, never for a terminated one; once the effect has run for the
\* current input, a result the callback delivers is the result for that
\* input.
C19_TerminatedNeverDelivers ==
    policy = "creator" =>
        /\ \A w \in DOMAIN workers :
               /\ w # worker => workers[w].terminated
               /\ workers[w].terminated =>
                      workers[w].revoked /\ Drained(w)
        /\ last.op = "callback" =>
               /\ ~workers[last.w].terminated
               /\ last.w = worker
               /\ phase = "attached" => result = InWorker(input).value

\* C19 witness: the input changed while the result for the previous input
\* was still on its way; the effect terminated that worker and created
\* the next one.
C19_Witness ==
    /\ policy = "creator"
    /\ last.op = "effect"
    /\ last.data.superseded
    /\ worker = 2
    /\ workers[1].terminated
    /\ workers[1].revoked
    /\ input = 5
    /\ result = NullValue

\* C20: once the hook's owner is unmounted its worker is terminated, the
\* script URL revoked and nothing is queued, whether or not kill was called
\* before; and no step after the unmount settles a promise or changes
\* status.
C20_DetachReleases ==
    /\ []((policy = "hook" /\ phase = "detached") =>
             /\ workers[1].terminated
             /\ workers[1].revoked
             /\ Drained(1)
             /\ last.op \notin {"onmessage", "onerror"})
    /\ [][(policy = "hook" /\ phase = "detached") =>
             (promises' = promises /\ status' = status)]_vars

\* C20 witness: the owner was unmounted after a kill had terminated the
\* worker; the URL is revoked.
C20_Witness ==
    /\ policy = "hook"
    /\ phase = "detached"
    /\ last.op = "cleanup"
    /\ killed
    /\ worker = Null
    /\ workers[1].terminated
    /\ workers[1].revoked

\* C21: when a Reply reaches a handler whose promise is already settled
\* (the handler has run before and no dispatch has replaced it), the step
\* changes neither status nor any promise.
C21_HandlerOneShot ==
    [][(/\ last'.op = "onmessage"
        /\ last'.p # Null
        /\ Settled(last'.p))
       => (status' = status /\ promises' = promises)]_vars

\* C22: the Reply that settles a promise is the Reply to the Invocation its
\* own dispatch sent, and the promise is resolved with the value, or
\* rejected with the message, of the callable run in the worker on the
\* argument of that dispatch.
C22_SettledByOwnReply ==
    [][(/\ last'.op = "onmessage"
        /\ last'.p # Null
        /\ ~Settled(last'.p))
       => LET p == last'.p
              out == InWorker(ghost[p].input)
          IN  /\ last'.data.id = p
              /\ promises'[p].state = "resolved" =>
                     (out.kind = "return" =>
                         promises'[p].value = out.value)
              /\ promises'[p].state = "rejected" =>
                     (out.kind = "throw" =>
                         promises'[p].value = Str(out.message))]_vars

\* C23: while a running worker of the dispatcher has an Invocation queued
\* or a Reply not yet handled, status is "running".
C23_RunningWhileInFlight ==
    policy \in {"factory", "hook"} =>
        \A w \in DOMAIN workers :
            (~workers[w].terminated /\ ~Drained(w)) => status = "running"

\* C24: under fair scheduling, a dispatch accepted by a running worker is
\* eventually settled, unless a later dispatch replaces its handlers, a
\* kill abandons it or its worker is terminated first.
C24_AcceptedDispatchSettles ==
    \A p \in 1 .. MaxCalls :
        (/\ p \in DOMAIN promises
         /\ ghost[p].quiet
         /\ ~Settled(p))
        ~> (/\ p \in DOMAIN promises
            /\ \/ Settled(p)
               \/ ~ghost[p].quiet
               \/ workers[ghost[p].ctx].terminated)

\* C25: in the hook, a runWorker call made after a kill has terminated the
\* worker is refused: it posts nothing, installs nothing and leaves status
\* as it is.
C25_NoDispatchAfterKill ==
    [][(policy = "hook" /\ killed /\ last'.op = "runWorker") =>
          /\ last'.w = Null
          /\ workers' = workers
          /\ status' = status]_vars

\* C26: in every state in which the dispatcher holds no handle, status is
\* "idle".
C26_NoHandleIdle ==
    (policy \in {"factory", "hook"} /\ worker = Null) => status = "idle"

\* C27: an accepted dispatch leaves status "running" and its handlers
\* installed on the worker it posted to; a worker with an Invocation or a
\* Reply queued has both handlers installed, and every Reply delivered
\* found a handler.
C27_HandlersBeforePost ==
    policy \in {"factory", "hook"} =>
        /\ (last.op = "runWorker" /\ last.w # Null) =>
               /\ status = "running"
               /\ workers[last.w].onmessage = last.p
               /\ workers[last.w].onerror = last.p
        /\ \A w \in DOMAIN workers :
               ~Drained(w) =>
                   workers[w].onmessage # Null /\ workers[w].onerror # Null
        /\ last.op \in {"onmessage", "onerror"} => last.p # Null

\* C27 witness: the Reply to the only dispatch was delivered to the handler
\* that dispatch installed, and settled it.
C27_Witness ==
    /\ policy \in {"factory", "hook"}
    /\ last.op = "onmessage"
    /\ last.p = 1
    /\ last.data.id = 1
    /\ last.from = "running"
    /\ Len(promises) = 1
    /\ Settled(1)

====
